---- MODULE Spec2Model ----
(***************************************************************************)
(* Model of plugins/modules/kerberos_keys.py: KerberosModule, the module   *)
(* that reconciles one declared Kerberos key against the remote service.   *)
(*                                                                         *)
(* Python values are represented as follows.  A str is a string and the    *)
(* None of a scalar is the string None.  A dict is a function over string  *)
(* keys, the empty dict is EmptyMap.  A KerberosKey object is a record     *)
(* over KeyFields.  Where Python holds "an object or None" (existing,      *)
(* item) the None is NoneObj, a one-field record that no serialization     *)
(* produces (TLC cannot compare a record with a string).  A tags dict is   *)
(* an opaque string naming the mapping.                                    *)
(***************************************************************************)
EXTENDS Integers, Sequences, FiniteSets, TLC

VARIABLES
    params,      \* self.params: the declared input of the task
    remote,      \* the resources held by the remote service
    pc,          \* per invocation: "idle", "find" (before line 197), "act" (before line 198)
    check_mode,  \* per invocation: self.check_mode
    existing,    \* per invocation: self._existing
    payload_params, \* per invocation: self._payload_params
    calls,       \* per invocation: the remote calls issued so far, in order
    before,      \* per invocation: the remote as it was when the invocation started
    at_find,     \* per invocation: the remote as it was when find ran
    history,     \* the finished invocations, in order of termination
    runs         \* number of invocations started

vars ==
    <<params, remote, pc, check_mode, existing, payload_params, calls, before, at_find,
      history, runs>>

----------------------------------------------------------------------------
(* Bounds *)

\* Number of invocations that can be in flight at the same time.
NumProcs == 2
\* Number of invocations started in one behaviour.
MaxRuns == 2

Procs == 1..NumProcs

----------------------------------------------------------------------------
(* Values *)

None == "None"
NoneObj == [none |-> TRUE]
EmptyMap == [k \in {} |-> None]

\* Identifiers of the resources the remote service may hold at the start.
Ids == {"k1", "k2"}
\* The identifiers a task may declare: one of them, the ids being alike.
DeclaredIds == {"k1"}
Comments == {"old", "new"}
Tags == {"t1"}
Principals == {"p1"}

\* The fields of a KerberosKey kept by the model (of algorithm, comment, domain,
\* id, principal, tags, uploaded_at, version).
KeyFields == {"id", "principal", "comment", "tags"}

\* The options of the module, main()'s module_args.
module_args == {"id", "state", "comment", "tags"}

\* The connection options that BloxoneAnsibleModule adds to the argument spec.
common_args == {"csp_url", "api_key"}

\* Every declared input the argument spec accepts: each option is in params,
\* None when it is not set; state defaults to present.
Inputs ==
    { [k \in module_args \cup common_args |->
          CASE k = "id" -> i
            [] k = "state" -> s
            [] k = "comment" -> c
            [] k = "tags" -> t
            [] k = "csp_url" -> "url"
            [] k = "api_key" -> "key"] :
        i \in DeclaredIds \cup {None}, s \in {"present", "absent"},
        c \in Comments \cup {None}, t \in Tags \cup {None} }

\* The resources the remote service can hold.
Resources ==
    [id : Ids, principal : Principals, comment : Comments \cup {None}, tags : Tags \cup {None}]

\* The states the remote service starts in: at most one resource per id; a
\* resource that no task declares by id varies in its comment only.
Remotes ==
    { rs \in SUBSET Resources :
        /\ \A r1, r2 \in rs : r1.id = r2.id => r1 = r2
        /\ \A r \in rs : r.id \notin DeclaredIds => r.tags = None /\ r.comment = "old" }

----------------------------------------------------------------------------
(* KerberosModule.__init__ *)

\* The exclusion list without id.
exclude_without_id == {"state", "csp_url", "api_key"}

exclude == {"state", "csp_url", "api_key", "id"}

build_payload_params(prm) ==
    [k \in {k \in DOMAIN prm : prm[k] # None /\ k \notin exclude} |-> prm[k]]

\* KerberosKey.from_dict: the fields given, None for the others.
from_dict(d) ==
    [f \in KeyFields |-> IF f \in DOMAIN d THEN d[f] ELSE None]

\* self._payload
payload(pp) == from_dict(pp)

\* model_dump(by_alias=True, exclude_none=True)
model_dump(obj) ==
    [f \in {f \in DOMAIN obj : obj[f] # None} |-> obj[f]]

----------------------------------------------------------------------------
(* The remote service behind KerberosApi.  A call either answers or raises  *)
(* an ApiException; NotFoundException is an ApiException.                   *)

Call(op, res, n) == [op |-> op, res |-> res, n |-> n]

WriteOps == {"create", "update", "delete"}

ApiRead(rem, id) == {r \in rem : r.id = id}

\* list(filter=...): the resources whose natural key equals the filter's value.
ApiList(rem, filter) == {r \in rem : r.principal = filter.value}

\* The id the service gives to a created resource: the first one not in use.
NewIdPool == <<"n1", "n2", "n3", "n4">>

NewId(rem) ==
    LET free == {i \in DOMAIN NewIdPool : \A r \in rem : r.id # NewIdPool[i]}
    IN NewIdPool[CHOOSE i \in free : \A j \in free : i <= j]

\* The resource a create stores: the body, with the server-assigned fields.
ApiCreate(rem, body) ==
    [body EXCEPT !.id = NewId(rem),
                 !.principal = IF body.principal = None THEN "p1" ELSE body.principal]

\* The resource an update stores: the fields the body sets, over the stored one.
ApiUpdate(old, body) ==
    [f \in KeyFields |-> IF f # "id" /\ body[f] # None THEN body[f] ELSE old[f]]

----------------------------------------------------------------------------
(* KerberosModule's methods.  Each gives what it raises (exc), what it      *)
(* returns (ret), the remote calls it issues and, for a write, the remote   *)
(* after it.  err: the remote call raises an ApiException.                  *)

\* BloxoneAnsibleModule.is_changed(existing, payload)
is_changed(dump, pp) ==
    \E k \in DOMAIN pp : k \notin DOMAIN dump \/ dump[k] # pp[k]

\* payload_changed that sees a change only when there is no resource.
payload_changed_only_create(ex, pp) ==
    ex = NoneObj

payload_changed(ex, pp) ==
    IF ex = NoneObj THEN TRUE ELSE is_changed(model_dump(ex), pp)

\* The read of find that takes a not-found for "absent" whatever the state.
find_by_id_notfound_is_absent(prm, rem, err) ==
    LET found == ApiRead(rem, prm["id"])
    IN IF err
       THEN [exc |-> "ApiException", ret |-> NoneObj,
             calls |-> <<Call("read", "error", 0)>>]
       ELSE IF found # {}
       THEN [exc |-> "none", ret |-> CHOOSE r \in found : TRUE,
             calls |-> <<Call("read", "ok", 1)>>]
       ELSE [exc |-> "none", ret |-> NoneObj,
             calls |-> <<Call("read", "notfound", 0)>>]

\* The read of find that lets every not-found through, whatever the state.
find_by_id_notfound_raises(prm, rem, err) ==
    LET found == ApiRead(rem, prm["id"])
    IN IF err
       THEN [exc |-> "ApiException", ret |-> NoneObj,
             calls |-> <<Call("read", "error", 0)>>]
       ELSE IF found # {}
       THEN [exc |-> "none", ret |-> CHOOSE r \in found : TRUE,
             calls |-> <<Call("read", "ok", 1)>>]
       ELSE [exc |-> "ApiException", ret |-> NoneObj,
             calls |-> <<Call("read", "notfound", 0)>>]

\* Lines 155-161: the read by id.
find_by_id(prm, rem, err) ==
    LET found == ApiRead(rem, prm["id"])
    IN IF err
       THEN [exc |-> "ApiException", ret |-> NoneObj,
             calls |-> <<Call("read", "error", 0)>>]
       ELSE IF found # {}
       THEN [exc |-> "none", ret |-> CHOOSE r \in found : TRUE,
             calls |-> <<Call("read", "ok", 1)>>]
       ELSE IF prm["state"] = "absent"
       THEN [exc |-> "none", ret |-> NoneObj,
             calls |-> <<Call("read", "notfound", 0)>>]
       ELSE [exc |-> "ApiException", ret |-> NoneObj,
             calls |-> <<Call("read", "notfound", 0)>>]

\* Lines 163-170: the lookup by filter.  self.params holds the options of the
\* argument spec only: reading an option that is not one of them raises
\* KeyError, before the list call.
find_by_filter(prm, rem, err) ==
    IF "name" \notin DOMAIN prm
    THEN [exc |-> "KeyError", ret |-> NoneObj, calls |-> <<>>]
    ELSE LET results == ApiList(rem, [field |-> "name", value |-> prm["name"]])
             n == Cardinality(results)
         IN IF err
            THEN [exc |-> "ApiException", ret |-> NoneObj,
                  calls |-> <<Call("list", "error", 0)>>]
            ELSE IF n = 1
            THEN [exc |-> "none", ret |-> CHOOSE r \in results : TRUE,
                  calls |-> <<Call("list", "ok", n)>>]
            ELSE IF n > 1
            THEN [exc |-> "fail_json", ret |-> NoneObj,
                  calls |-> <<Call("list", "ok", n)>>]
            ELSE [exc |-> "none", ret |-> NoneObj,
                  calls |-> <<Call("list", "ok", n)>>]

find(prm, rem, err) ==
    IF prm["id"] # None
    THEN find_by_id(prm, rem, err)
    ELSE find_by_filter(prm, rem, err)

create(chk, body, rem, err) ==
    IF chk
    THEN [exc |-> "none", ret |-> NoneObj, calls |-> <<>>, remote |-> rem]
    ELSE IF err
    THEN [exc |-> "ApiException", ret |-> NoneObj,
          calls |-> <<Call("create", "error", 0)>>, remote |-> rem]
    ELSE LET new == ApiCreate(rem, body)
         IN [exc |-> "none", ret |-> model_dump(new),
             calls |-> <<Call("create", "ok", 1)>>, remote |-> rem \cup {new}]

update(chk, ex, body, rem, err) ==
    IF chk
    THEN [exc |-> "none", ret |-> NoneObj, calls |-> <<>>, remote |-> rem]
    ELSE LET found == ApiRead(rem, ex.id)
         IN IF err
            THEN [exc |-> "ApiException", ret |-> NoneObj,
                  calls |-> <<Call("update", "error", 0)>>, remote |-> rem]
            ELSE IF found = {}
            THEN [exc |-> "ApiException", ret |-> NoneObj,
                  calls |-> <<Call("update", "notfound", 0)>>, remote |-> rem]
            ELSE LET new == ApiUpdate(CHOOSE r \in found : TRUE, body)
                 IN [exc |-> "none", ret |-> model_dump(new),
                     calls |-> <<Call("update", "ok", 1)>>,
                     remote |-> (rem \ found) \cup {new}]

\* delete without the check-mode guard.
delete_unguarded(chk, ex, rem, err) ==
    LET found == ApiRead(rem, ex.id)
    IN IF err
       THEN [exc |-> "ApiException", ret |-> NoneObj,
             calls |-> <<Call("delete", "error", 0)>>, remote |-> rem]
       ELSE IF found = {}
       THEN [exc |-> "ApiException", ret |-> NoneObj,
             calls |-> <<Call("delete", "notfound", 0)>>, remote |-> rem]
       ELSE [exc |-> "none", ret |-> NoneObj,
             calls |-> <<Call("delete", "ok", 0)>>, remote |-> rem \ found]

delete(chk, ex, rem, err) ==
    IF chk
    THEN [exc |-> "none", ret |-> NoneObj, calls |-> <<>>, remote |-> rem]
    ELSE LET found == ApiRead(rem, ex.id)
         IN IF err
            THEN [exc |-> "ApiException", ret |-> NoneObj,
                  calls |-> <<Call("delete", "error", 0)>>, remote |-> rem]
            ELSE IF found = {}
            THEN [exc |-> "ApiException", ret |-> NoneObj,
                  calls |-> <<Call("delete", "notfound", 0)>>, remote |-> rem]
            ELSE [exc |-> "none", ret |-> NoneObj,
                  calls |-> <<Call("delete", "ok", 0)>>, remote |-> rem \ found]

----------------------------------------------------------------------------
(* KerberosModule.run_command *)

Put(d, k, v) == [x \in DOMAIN d \cup {k} |-> IF x = k THEN v ELSE d[x]]

\* result = dict(changed=False, object={}, id=None)
result0 == [changed |-> FALSE, object |-> EmptyMap, id |-> None]

\* branch without the drift test: an existing resource is always updated.
branch_always_update(prm, ex, pp) ==
    IF prm["state"] = "present" /\ ex = NoneObj THEN "create"
    ELSE IF prm["state"] = "present" /\ ex # NoneObj THEN "update"
    ELSE IF prm["state"] = "absent" /\ ex # NoneObj THEN "delete"
    ELSE "noop"

\* The branch that the if/elif chain of lines 199-211 takes.
branch(prm, ex, pp) ==
    IF prm["state"] = "present" /\ ex = NoneObj THEN "create"
    ELSE IF prm["state"] = "present" /\ ex # NoneObj
    THEN IF payload_changed(ex, pp) THEN "update" ELSE "noop"
    ELSE IF prm["state"] = "absent" /\ ex # NoneObj THEN "delete"
    ELSE "noop"

\* branch_result whose delete branch sets no msg.
branch_result_delete_no_msg(br) ==
    CASE br = "create" -> Put(Put(result0, "changed", TRUE), "msg", "Kerberos created")
      [] br = "update" -> Put(Put(result0, "changed", TRUE), "msg", "Kerberos updated")
      [] br = "delete" -> Put(result0, "changed", TRUE)
      [] OTHER -> result0

\* result["changed"], result["msg"] as the branch sets them.
branch_result(br) ==
    CASE br = "create" -> Put(Put(result0, "changed", TRUE), "msg", "Kerberos created")
      [] br = "update" -> Put(Put(result0, "changed", TRUE), "msg", "Kerberos updated")
      [] br = "delete" -> Put(Put(result0, "changed", TRUE), "msg", "Kerberos deleted")
      [] OTHER -> result0

\* item and "id" in item
has_id(item) == item # NoneObj /\ item # EmptyMap /\ "id" \in DOMAIN item

\* assemble that reports the resource as found for diff.after.
assemble_after_stale(res, ex, item) ==
    Put(Put(Put(res,
        "diff", [before |-> IF ex # NoneObj THEN model_dump(ex) ELSE EmptyMap,
                 after |-> IF ex # NoneObj THEN model_dump(ex) ELSE EmptyMap]),
        "object", item),
        "id", IF ex # NoneObj THEN ex.id ELSE IF has_id(item) THEN item["id"] ELSE None)

\* assemble that takes the id from the returned object only.
assemble_id_from_item(res, ex, item) ==
    Put(Put(Put(res,
        "diff", [before |-> IF ex # NoneObj THEN model_dump(ex) ELSE EmptyMap,
                 after |-> item]),
        "object", item),
        "id", IF has_id(item) THEN item["id"] ELSE None)

\* Lines 217-222: the diff, the object and the id of the result.
assemble(res, ex, item) ==
    Put(Put(Put(res,
        "diff", [before |-> IF ex # NoneObj THEN model_dump(ex) ELSE EmptyMap,
                 after |-> item]),
        "object", item),
        "id", IF ex # NoneObj THEN ex.id ELSE IF has_id(item) THEN item["id"] ELSE None)

\* report that, in check mode, gives back the initial result: the changed
\* flag of the computed action is lost.
report_check_unchanged(chk, res, ex, item) ==
    IF chk THEN result0 ELSE assemble(res, ex, item)

\* report without the early exit of check mode.
report_no_early_exit(chk, res, ex, item) ==
    assemble(res, ex, IF item = NoneObj THEN EmptyMap ELSE item)

\* Lines 213-226 when nothing was raised: in check mode the result as it is,
\* else the result with the diff, the object and the id.
report(chk, res, ex, item) ==
    IF chk THEN res ELSE assemble(res, ex, item)

\* A handler that turns an ApiException into an unchanged result.
except_ApiException_swallowed ==
    [outcome |-> "exit_json", result |-> result0]

\* Lines 223-224: an ApiException ends the invocation through fail_json.
except_ApiException ==
    [outcome |-> "fail_json", result |-> [msg |-> "Failed to execute command"]]

\* Lines 198-226, after find has returned ex: how the invocation ends
\* (outcome), what it reports, the calls it issues and the remote after it.
run_command(prm, pp, chk, ex, rem, err) ==
    LET br == branch(prm, ex, pp)
        w == CASE br = "create" -> create(chk, payload(pp), rem, err)
               [] br = "update" -> update(chk, ex, payload(pp), rem, err)
               [] br = "delete" -> delete(chk, ex, rem, err)
               [] OTHER -> [exc |-> "none", ret |-> EmptyMap, calls |-> <<>>,
                            remote |-> rem]
        item == IF br \in {"create", "update"} THEN w.ret ELSE EmptyMap
    IN IF w.exc = "ApiException"
       THEN [outcome |-> except_ApiException.outcome,
             result |-> except_ApiException.result,
             calls |-> w.calls, remote |-> w.remote]
       ELSE [outcome |-> "exit_json",
             result |-> report(chk, branch_result(br), ex, item),
             calls |-> w.calls, remote |-> w.remote]

\* How an exception that leaves find ends the invocation: an ApiException is
\* caught at line 223, fail_json (line 168) exits, anything else is not handled.
find_outcome(exc) ==
    CASE exc = "ApiException" -> except_ApiException
      [] exc = "fail_json" ->
            [outcome |-> "fail_json", result |-> [msg |-> "Found multiple Kerberos"]]
      [] OTHER -> [outcome |-> "exception", result |-> [exception |-> exc]]

----------------------------------------------------------------------------
(* The invocations *)

Finished(p, resolved, ex, outcome, result, cs, rem) ==
    [check |-> check_mode[p], resolved |-> resolved, existing |-> ex,
     payload_params |-> payload_params[p],
     outcome |-> outcome, result |-> result, calls |-> cs,
     before |-> before[p], at_find |-> IF resolved THEN at_find[p] ELSE remote,
     after |-> rem]

Init ==
    /\ params \in Inputs
    /\ remote \in Remotes
    /\ pc = [p \in Procs |-> "idle"]
    /\ check_mode = [p \in Procs |-> FALSE]
    /\ existing = [p \in Procs |-> NoneObj]
    /\ payload_params = [p \in Procs |-> EmptyMap]
    /\ calls = [p \in Procs |-> <<>>]
    /\ before = [p \in Procs |-> {}]
    /\ at_find = [p \in Procs |-> {}]
    /\ history = <<>>
    /\ runs = 0

\* main(): the module is constructed (__init__) and run_command is entered.
Start(p) ==
    /\ pc[p] = "idle"
    /\ \A q \in Procs : q < p => pc[q] # "idle"
    /\ runs < MaxRuns
    /\ \E chk \in BOOLEAN : check_mode' = [check_mode EXCEPT ![p] = chk]
    /\ payload_params' = [payload_params EXCEPT ![p] = build_payload_params(params)]
    /\ existing' = [existing EXCEPT ![p] = NoneObj]
    /\ calls' = [calls EXCEPT ![p] = <<>>]
    /\ before' = [before EXCEPT ![p] = remote]
    /\ at_find' = [at_find EXCEPT ![p] = {}]
    /\ pc' = [pc EXCEPT ![p] = "find"]
    /\ runs' = runs + 1
    /\ UNCHANGED <<params, remote, history>>

Reset(p) ==
    /\ pc' = [pc EXCEPT ![p] = "idle"]
    /\ check_mode' = [check_mode EXCEPT ![p] = FALSE]
    /\ existing' = [existing EXCEPT ![p] = NoneObj]
    /\ payload_params' = [payload_params EXCEPT ![p] = EmptyMap]
    /\ calls' = [calls EXCEPT ![p] = <<>>]
    /\ before' = [before EXCEPT ![p] = {}]
    /\ at_find' = [at_find EXCEPT ![p] = {}]

\* Line 197: self.existing = self.find()
Find(p) ==
    /\ pc[p] = "find"
    /\ \E err \in BOOLEAN :
        LET f == find(params, remote, err)
        IN IF f.exc = "none"
           THEN /\ existing' = [existing EXCEPT ![p] = f.ret]
                /\ calls' = [calls EXCEPT ![p] = calls[p] \o f.calls]
                /\ pc' = [pc EXCEPT ![p] = "act"]
                /\ at_find' = [at_find EXCEPT ![p] = remote]
                /\ UNCHANGED <<check_mode, payload_params, before, history>>
           ELSE /\ history' = Append(history,
                        Finished(p, FALSE, NoneObj, find_outcome(f.exc).outcome,
                                 find_outcome(f.exc).result, calls[p] \o f.calls, remote))
                /\ Reset(p)
    /\ UNCHANGED <<params, remote, runs>>

\* Lines 198-226: the action, then the report.
Act(p) ==
    /\ pc[p] = "act"
    /\ \E err \in BOOLEAN :
        LET a == run_command(params, payload_params[p], check_mode[p], existing[p],
                             remote, err)
        IN /\ remote' = a.remote
           /\ history' = Append(history,
                   Finished(p, TRUE, existing[p], a.outcome, a.result,
                            calls[p] \o a.calls, a.remote))
    /\ Reset(p)
    /\ UNCHANGED <<params, runs>>

Next == \E p \in Procs : Start(p) \/ Find(p) \/ Act(p)

\* Invocations that may overlap.
Spec == Init /\ [][Next]_vars

\* Invocations one after the other: none starts while another is in flight.
StartSeq(p) == (\A q \in Procs : pc[q] = "idle") /\ Start(p)

NextSeq == \E p \in Procs : StartSeq(p) \/ Find(p) \/ Act(p)

SeqSpec == Init /\ [][NextSeq]_vars

----------------------------------------------------------------------------
(* What the finished invocations show *)

Hist == {history[i] : i \in DOMAIN history}

Ops(cs) == [i \in DOMAIN cs |-> cs[i].op]

IsWrite(c) == c.op \in WriteOps

Writes(cs) == SelectSeq(cs, IsWrite)

\* An invocation found a resource.
Present(h) == h.existing # NoneObj

\* The declared payload differs from the resource the invocation found, told
\* from the resource's fields.
Drift(h) ==
    \E k \in DOMAIN h.payload_params :
        h.existing[k] = None \/ h.existing[k] # h.payload_params[k]

\* The action the reconciler's table gives for what the invocation found.
TableAction(h) ==
    CASE ~Present(h) /\ params["state"] = "present" -> "create"
      [] Present(h) /\ params["state"] = "present" /\ ~Drift(h) -> "noop"
      [] Present(h) /\ params["state"] = "present" /\ Drift(h) -> "update"
      [] ~Present(h) /\ params["state"] = "absent" -> "noop"
      [] Present(h) /\ params["state"] = "absent" -> "delete"

TableMsg(a) ==
    CASE a = "create" -> "Kerberos created"
      [] a = "update" -> "Kerberos updated"
      [] a = "delete" -> "Kerberos deleted"

----------------------------------------------------------------------------
(* C1 *)

\* C1: every invocation whose find returned takes the one action that the
\* table gives for (existing, state, drift): the only remote write it issues
\* is that action's (none for a no-op, none in check mode), and a result it
\* reports names that action.
C1_OneActionPerPair ==
    \A h \in Hist :
        h.resolved =>
            LET a == TableAction(h)
            IN /\ Ops(Writes(h.calls)) = IF h.check \/ a = "noop" THEN <<>> ELSE <<a>>
               /\ h.outcome = "exit_json" =>
                    IF a = "noop"
                    THEN ~h.result["changed"] /\ "msg" \notin DOMAIN h.result
                    ELSE h.result["changed"] /\ h.result["msg"] = TableMsg(a)

\* An update on drift followed by a no-op, and elsewhere a delete, were run.
C1_Witness ==
    \E h1, h2 \in Hist :
        /\ ~h1.check /\ h1.resolved /\ TableAction(h1) = "update"
        /\ Ops(Writes(h1.calls)) = <<"update">> /\ h1.outcome = "exit_json"
        /\ ~h2.check /\ h2.resolved /\ TableAction(h2) = "noop" /\ Present(h2)
        /\ h2.outcome = "exit_json"

----------------------------------------------------------------------------
(* C2 *)

\* No remote call of the invocation raised an API failure.
NoApiError(h) == \A i \in DOMAIN h.calls : h.calls[i].res # "error"

\* C2: two runs in succession, not in check mode, with the same declared
\* input, state=present and no id, starting from a remote that holds no
\* resource and with no API failure: the first reports changed=true, the
\* second changed=false, and both report the same object.
C2_CreateThenNoop ==
    ( /\ Len(history) >= 2
      /\ params["state"] = "present" /\ params["id"] = None
      /\ ~history[1].check /\ ~history[2].check
      /\ history[1].before = {}
      /\ NoApiError(history[1]) /\ NoApiError(history[2]) )
    => /\ history[1].outcome = "exit_json" /\ history[2].outcome = "exit_json"
       /\ history[1].result["changed"] /\ ~history[2].result["changed"]
       /\ history[1].result["object"] = history[2].result["object"]

----------------------------------------------------------------------------
(* C3 *)

\* C3: an invocation in check mode issues no create, update or delete; the
\* one call it issues, if any, is the read or the list of find, and the
\* remote after it is the remote before it.
C3_CheckModeWritesNothing ==
    \A h \in Hist :
        h.check =>
            /\ Writes(h.calls) = <<>>
            /\ Len(h.calls) <= 1
            /\ \A i \in DOMAIN h.calls : h.calls[i].op \in {"read", "list"}
            /\ h.after = h.before

\* Check-mode invocations that computed an update and a delete have ended.
C3_Witness ==
    \E h \in Hist :
        /\ h.check /\ h.resolved /\ h.outcome = "exit_json"
        /\ h.result["changed"] /\ h.result["msg"] = "Kerberos deleted"
        /\ h.after # {}

----------------------------------------------------------------------------
(* C4 *)

\* C4: a check-mode run and a run that is not in check mode, with the same
\* declared input and started on the same remote, both ending in exit_json,
\* report the same changed flag.
C4_CheckModeSameChanged ==
    \A h1, h2 \in Hist :
        ( /\ h1.check /\ ~h2.check
          /\ h1.before = h2.before
          /\ h1.outcome = "exit_json" /\ h2.outcome = "exit_json" )
        => h1.result["changed"] = h2.result["changed"]

\* A check-mode run and a real run on the same remote both reported a change.
C4_Witness ==
    \E h1, h2 \in Hist :
        /\ h1.check /\ ~h2.check /\ h1.before = h2.before
        /\ h1.outcome = "exit_json" /\ h2.outcome = "exit_json"
        /\ h2.result["changed"] /\ Ops(Writes(h2.calls)) = <<"update">>

----------------------------------------------------------------------------
(* C5 *)

\* C5 as stated: the result of a check-mode run that ends in exit_json has no
\* diff and no object field, only changed and msg.
C5_OnlyChangedAndMsg ==
    \A h \in Hist :
        (h.check /\ h.outcome = "exit_json") =>
            /\ "diff" \notin DOMAIN h.result
            /\ "object" \notin DOMAIN h.result
            /\ DOMAIN h.result \subseteq {"changed", "msg"}

\* C5, amended: the result of a check-mode run that ends in exit_json has no
\* diff field; it holds changed, the object and id it was initialised with
\* (the empty mapping and None), and msg exactly when an action was computed.
C5_CheckModeResult ==
    \A h \in Hist :
        (h.check /\ h.outcome = "exit_json") =>
            /\ "diff" \notin DOMAIN h.result
            /\ h.result["object"] = EmptyMap
            /\ h.result["id"] = None
            /\ DOMAIN h.result =
                 {"changed", "object", "id"}
                    \cup (IF h.result["changed"] THEN {"msg"} ELSE {})

\* A check-mode run that found a resource and computed an update has ended.
C5_Witness ==
    \E h \in Hist :
        /\ h.check /\ h.outcome = "exit_json" /\ Present(h)
        /\ h.result["changed"] /\ h.result["msg"] = "Kerberos updated"

----------------------------------------------------------------------------
(* C6 *)

----------------------------------------------------------------------------
(* C7 *)

ReadNotFound(h) == \E i \in DOMAIN h.calls : h.calls[i] = Call("read", "notfound", 0)

\* C7: with an id declared and state=present, a read that signals not-found
\* ends the invocation in fail_json: the read is the only remote call (no
\* create, no list), and no result with a changed flag is reported.
C7_NotFoundPresentIsFatal ==
    \A h \in Hist :
        (params["id"] # None /\ params["state"] = "present" /\ ReadNotFound(h)) =>
            /\ h.outcome = "fail_json"
            /\ Ops(h.calls) = <<"read">>
            /\ "changed" \notin DOMAIN h.result

\* A state=present invocation whose declared id the remote does not hold has ended.
C7_Witness ==
    \E h \in Hist :
        /\ params["id"] # None /\ params["state"] = "present" /\ ReadNotFound(h)
        /\ ~h.check /\ h.outcome = "fail_json"

----------------------------------------------------------------------------
(* C8 *)

\* C8: with an id declared and state=absent, a read that signals not-found
\* ends the invocation in exit_json with changed=false and no delete call;
\* and of two runs in succession, not in check mode, the first of which
\* deleted the resource, the second ends in exit_json with changed=false
\* unless its read raises an API failure.
C8_NotFoundAbsentIsNoop ==
    /\ \A h \in Hist :
        (params["id"] # None /\ params["state"] = "absent" /\ ReadNotFound(h)) =>
            /\ h.outcome = "exit_json"
            /\ ~h.result["changed"]
            /\ Ops(h.calls) = <<"read">>
    /\ \A i \in DOMAIN history :
        ( /\ i + 1 \in DOMAIN history
          /\ params["id"] # None /\ params["state"] = "absent"
          /\ ~history[i].check /\ ~history[i + 1].check
          /\ history[i].outcome = "exit_json" /\ history[i].result["changed"]
          /\ NoApiError(history[i + 1]) )
        => /\ history[i + 1].outcome = "exit_json"
           /\ ~history[i + 1].result["changed"]

\* A run deleted the declared id and the next run found it already absent.
C8_Witness ==
    /\ Len(history) >= 2
    /\ params["id"] # None /\ params["state"] = "absent"
    /\ ~history[1].check /\ ~history[2].check
    /\ history[1].outcome = "exit_json" /\ history[1].result["changed"]
    /\ Ops(history[1].calls) = <<"read", "delete">>
    /\ ReadNotFound(history[2]) /\ history[2].outcome = "exit_json"

----------------------------------------------------------------------------
(* C9 *)

\* A remote call raised an API failure: a generic one, or a not-found other
\* than the tolerated one of the read under state=absent.
ApiFailure(c) ==
    \/ c.res = "error"
    \/ c.res = "notfound" /\ ~(c.op = "read" /\ params["state"] = "absent")

\* C9: a remote call that raises an API failure is the last call of its
\* invocation (no retry, no further call), the invocation ends in fail_json,
\* and what it reports is the failure message alone: no changed, object,
\* diff or id.
C9_ApiFailureIsFatal ==
    \A h \in Hist :
        \A i \in DOMAIN h.calls :
            ApiFailure(h.calls[i]) =>
                /\ i = Len(h.calls)
                /\ h.outcome = "fail_json"
                /\ DOMAIN h.result = {"msg"}

\* An update raised an API failure after the read had found the resource,
\* and elsewhere a read raised one.
C9_Witness ==
    \E h1, h2 \in Hist :
        /\ Len(h1.calls) = 2 /\ h1.calls[1] = Call("read", "ok", 1)
        /\ h1.calls[2] = Call("update", "error", 0)
        /\ h1.outcome = "fail_json"
        /\ h2.calls = <<Call("read", "error", 0)>>

----------------------------------------------------------------------------
(* C10 *)

\* A resource as the service serializes it: its fields that are set.
Serialized(r) == [f \in {f \in KeyFields : r[f] # None} |-> r[f]]

WriteOk(h, op) == \E i \in DOMAIN h.calls : h.calls[i] = Call(op, "ok", 1)

\* C10: in a run that is not in check mode and ends in exit_json, diff.before
\* is the serialized resource that find returned (the empty mapping if none)
\* and diff.after is the resource the create or update call stored and
\* returned (the empty mapping for a no-op and for a delete); an update of
\* comment "old" to "new" reports before.comment "old", after.comment "new".
C10_DiffBeforeAfter ==
    \A h \in Hist :
        (~h.check /\ h.outcome = "exit_json") =>
            /\ h.result["diff"].before =
                    IF Present(h) THEN Serialized(h.existing) ELSE EmptyMap
            /\ IF WriteOk(h, "update")
               THEN \E r \in h.after :
                        r.id = h.existing.id /\ h.result["diff"].after = Serialized(r)
               ELSE IF WriteOk(h, "create")
               THEN \E r \in h.after : h.result["diff"].after = Serialized(r)
               ELSE h.result["diff"].after = EmptyMap
            /\ ( /\ WriteOk(h, "update")
                 /\ h.existing.comment = "old"
                 /\ "comment" \in DOMAIN h.payload_params
                 /\ h.payload_params["comment"] = "new" )
               => /\ h.result["diff"].before["comment"] = "old"
                  /\ h.result["diff"].after["comment"] = "new"

\* An update of comment "old" to "new" has ended, and elsewhere a delete.
C10_Witness ==
    \E h1, h2 \in Hist :
        /\ ~h1.check /\ h1.outcome = "exit_json" /\ WriteOk(h1, "update")
        /\ h1.existing.comment = "old"
        /\ "comment" \in DOMAIN h1.payload_params
        /\ h1.payload_params["comment"] = "new"
        /\ h1.result["diff"].after["comment"] = "new"
        /\ ~h2.check /\ h2.outcome = "exit_json" /\ Present(h2)
        /\ h2.result["diff"].after = EmptyMap

----------------------------------------------------------------------------
(* C11 *)

\* C11: in a run that is not in check mode and ends in exit_json, result.id
\* is the id of the resource find returned when there was one (also for a
\* delete and a no-op), else the id of the resource a create stored, else None.
C11_ResultId ==
    \A h \in Hist :
        (~h.check /\ h.outcome = "exit_json") =>
            IF Present(h)
            THEN h.result["id"] = h.existing.id
            ELSE IF WriteOk(h, "create")
            THEN \E r \in h.after \ h.at_find : h.result["id"] = r.id
            ELSE h.result["id"] = None

\* A delete has reported the id of the resource it removed, and a run that
\* found nothing to delete has reported no id.
C11_Witness ==
    \E h1, h2 \in Hist :
        /\ ~h1.check /\ h1.outcome = "exit_json" /\ Present(h1)
        /\ Ops(h1.calls) = <<"read", "delete">> /\ h1.result["id"] = "k1"
        /\ ~h2.check /\ h2.outcome = "exit_json" /\ ~Present(h2)
        /\ h2.result["id"] = None

----------------------------------------------------------------------------
(* C12 *)

\* C12: an invocation with no id declared issues exactly one list call, as
\* its first and only resolve call, whose outcome decides what find
\* returns: absent for no match, the resource for one match; it does not end
\* in an exception that is not handled.
C12_FilterLookupIssued ==
    \A h \in Hist :
        params["id"] = None =>
            /\ h.outcome # "exception"
            /\ Len(h.calls) >= 1
            /\ h.calls[1].op = "list"
            /\ \A i \in DOMAIN h.calls : i > 1 => h.calls[i].op # "list"
            /\ (h.calls[1].res = "ok" /\ h.calls[1].n = 0) => h.resolved /\ ~Present(h)
            /\ (h.calls[1].res = "ok" /\ h.calls[1].n = 1) => h.resolved /\ Present(h)

----------------------------------------------------------------------------
(* C13 *)

\* C13 as stated: the result of every run that is not in check mode and ends
\* in exit_json holds changed, object, id, msg and diff with before and after.
C13_AllFieldsPopulated ==
    \A h \in Hist :
        (~h.check /\ h.outcome = "exit_json") =>
            /\ {"changed", "object", "id", "msg", "diff"} \subseteq DOMAIN h.result
            /\ DOMAIN h.result["diff"] = {"before", "after"}

\* C13, amended: the result of every run that is not in check mode and ends
\* in exit_json holds changed, object, id and diff with before and after; it
\* holds msg exactly when the action is a create, an update or a delete, and
\* no msg for a no-op.
C13_FieldsPopulated ==
    \A h \in Hist :
        (~h.check /\ h.outcome = "exit_json") =>
            /\ DOMAIN h.result =
                 {"changed", "object", "id", "diff"}
                    \cup (IF TableAction(h) # "noop" THEN {"msg"} ELSE {})
            /\ DOMAIN h.result["diff"] = {"before", "after"}

\* A no-op has reported a result without msg, and a delete one with msg.
C13_Witness ==
    \E h1, h2 \in Hist :
        /\ ~h1.check /\ h1.outcome = "exit_json" /\ TableAction(h1) = "noop"
        /\ "msg" \notin DOMAIN h1.result /\ "diff" \in DOMAIN h1.result
        /\ ~h2.check /\ h2.outcome = "exit_json" /\ TableAction(h2) = "delete"
        /\ h2.result["msg"] = "Kerberos deleted"

----------------------------------------------------------------------------
(* C14 *)

\* C14: in every run that ends in exit_json, in check mode or not, changed is
\* false exactly when the action of the table is a no-op and true exactly
\* when it is a create, an update or a delete; a no-op issues no remote write.
C14_ChangedIffAction ==
    \A h \in Hist :
        h.outcome = "exit_json" =>
            /\ h.result["changed"] = (TableAction(h) \in WriteOps)
            /\ ~h.result["changed"] = (TableAction(h) = "noop")
            /\ TableAction(h) = "noop" => Writes(h.calls) = <<>>

\* A delete has reported changed=true and the no-op of the run after it,
\* which found the resource absent, changed=false.
C14_Witness ==
    \E h1, h2 \in Hist :
        /\ h1.outcome = "exit_json" /\ TableAction(h1) = "delete"
        /\ h1.result["changed"]
        /\ Ops(Writes(h1.calls)) = <<"delete">>
        /\ h2.outcome = "exit_json" /\ TableAction(h2) = "noop" /\ ~Present(h2)
        /\ ~h2.result["changed"] /\ Writes(h2.calls) = <<>>

----------------------------------------------------------------------------
(* C15 *)

\* The declared entries that make the payload: those that are set, but for
\* state, id and the connection fields.
DeclaredPayload ==
    [k \in {k \in DOMAIN params :
              params[k] # None /\ k \notin {"state", "id", "csp_url", "api_key"}}
        |-> params[k]]

\* C15: the payload built at construction holds exactly the declared entries
\* that are set and are not state, id or a connection field; it never holds
\* id or state; and it is the same from construction to the end of the
\* invocation, whatever find and the action did.
C15_PayloadFixed ==
    /\ \A p \in Procs :
        pc[p] # "idle" =>
            /\ payload_params[p] = DeclaredPayload
            /\ DOMAIN payload_params[p] \subseteq {"comment", "tags"}
    /\ \A h \in Hist :
        /\ h.payload_params = DeclaredPayload
        /\ "id" \notin DOMAIN h.payload_params
        /\ "state" \notin DOMAIN h.payload_params

\* An invocation that declares an id and a comment but no tags has updated
\* the resource and ended with the payload it was constructed with.
C15_Witness ==
    \E h \in Hist :
        /\ params["id"] # None /\ params["comment"] # None /\ params["tags"] = None
        /\ WriteOk(h, "update")
        /\ DOMAIN h.payload_params = {"comment"}

----------------------------------------------------------------------------
(* C16 *)

IsResolve(c) == c.op \in {"read", "list"}

\* C16: the remote calls of an invocation are exactly one resolve call (read
\* or list), issued first, then at most one of create, update and delete,
\* issued only after the resolve has returned without an API failure.
C16_ResolveThenOneWrite ==
    \A h \in Hist :
        /\ Len(h.calls) \in {1, 2}
        /\ IsResolve(h.calls[1])
        /\ Len(h.calls) = 2 =>
              /\ IsWrite(h.calls[2])
              /\ h.calls[1].res # "error"
              /\ h.resolved

----------------------------------------------------------------------------
(* C17 *)

\* C17: two invocations with the same input, state=present and no id, not
\* in check mode and meeting no API failure, whose finds both ran on a
\* remote that held no resource (both resolved before either wrote), both
\* issue a create, and the remote ends with two resources under one natural key.
C17_RacingCreates ==
    \A i, j \in DOMAIN history :
        ( /\ i # j
          /\ params["id"] = None /\ params["state"] = "present"
          /\ ~history[i].check /\ ~history[j].check
          /\ NoApiError(history[i]) /\ NoApiError(history[j])
          /\ history[i].at_find = {} /\ history[j].at_find = {} )
        => /\ WriteOk(history[i], "create") /\ WriteOk(history[j], "create")
           /\ \E r1, r2 \in remote : r1 # r2 /\ r1.principal = r2.principal

\* The other race of C17: a delete was issued for an id that another
\* invocation had deleted after this one's read had found it.
C17_StaleDeleteWitness ==
    \E h \in Hist :
        /\ Len(h.calls) = 2
        /\ h.calls[1] = Call("read", "ok", 1)
        /\ h.calls[2] = Call("delete", "notfound", 0)
        /\ h.outcome = "fail_json"

----------------------------------------------------------------------------
(* C18 *)

CreateCalls(h) == Len(SelectSeq(h.calls, LAMBDA c : c.op = "create"))

RECURSIVE TotalCreates(_)
TotalCreates(n) == IF n = 0 THEN 0 ELSE CreateCalls(history[n]) + TotalCreates(n - 1)

\* C18: runs one after the other, not in check mode, with the same input,
\* state=present and no id, starting from a remote that holds no resource
\* and meeting no API failure: the first creates the resource, every later
\* one ends in exit_json without a create, at most one create is issued in
\* all, and from the third run on the action is a no-op with changed=false.
C18_ConvergesToNoop ==
    ( /\ Len(history) >= 2
      /\ params["id"] = None /\ params["state"] = "present"
      /\ history[1].before = {}
      /\ \A i \in DOMAIN history : ~history[i].check /\ NoApiError(history[i]) )
    => /\ TotalCreates(Len(history)) <= 1
       /\ WriteOk(history[1], "create")
       /\ \A i \in DOMAIN history :
            i >= 2 => /\ history[i].outcome = "exit_json"
                      /\ CreateCalls(history[i]) = 0
                      /\ i >= 3 => ~history[i].result["changed"]

----------------------------------------------------------------------------
(* C19 *)

\* C19: every invocation ends in exactly one of two outcomes, a success
\* reported through exit_json or a failure reported through fail_json with
\* its message; none ends in an exception that nothing handles, and none
\* issues a remote call after the failure.
C19_ExitOrFail ==
    \A h \in Hist :
        /\ h.outcome \in {"exit_json", "fail_json"}
        /\ h.outcome = "exit_json" => "changed" \in DOMAIN h.result
        /\ h.outcome = "fail_json" =>
              /\ DOMAIN h.result = {"msg"}
              /\ \A i \in DOMAIN h.calls : h.calls[i].res = "error" => i = Len(h.calls)

----------------------------------------------------------------------------
(* C20 *)

\* Two or more resources of the remote share one natural key.
Duplicates(rem) == \E r1, r2 \in rem : r1 # r2 /\ r1.principal = r2.principal

\* C20: once the find of an invocation without id has run on a remote with
\* two or more resources under one natural key, that invocation and every
\* later one without id, whatever the state, ends in fail_json with the
\* ambiguous-match message unless it meets an API failure, issues no write,
\* and leaves the duplicates in the remote.
C20_DuplicatesPersist ==
    \A i, j \in DOMAIN history :
        ( /\ i <= j
          /\ params["id"] = None
          /\ Duplicates(history[i].at_find)
          /\ NoApiError(history[j]) )
        => /\ history[j].outcome = "fail_json"
           /\ history[j].result["msg"] = "Found multiple Kerberos"
           /\ Writes(history[j].calls) = <<>>
           /\ Duplicates(history[j].after)

====
